---- MODULE Spec2Model ----
(***************************************************************************)
(* Model of examples/PMT_positions_1T.ipynb: the two PMT locators          *)
(* (get_pmt_positions_top, get_pmt_positions_bottom), rotate, and the      *)
(* notebook cells that build positions_top, positions_bottom and           *)
(* pmt_locations.                                                          *)
(*                                                                         *)
(* Lengths are exact integers in hundredths of a centimetre.  A position   *)
(* is the record [u, v, turn]: the vector (u, v*sqrt(3)) turned            *)
(* counter-clockwise by turn half-degrees (turn in 0..FullTurn-1).  Every  *)
(* value the notebook computes has this form exactly: a top PMT is the     *)
(* vector (radius, 0) turned by index2*2*pi/array[index1], a bottom PMT is *)
(* (x, k*sqrt(3)) because row_distance = sqrt(3)/2 * PMT_distance_bottom.  *)
(***************************************************************************)
EXTENDS Integers, Sequences, FiniteSets

VARIABLES pc, fn, number, array, index1, iTotal, index2, ret,
          k, positions_top, positions_bottom, pmt_locations, log

vars == <<pc, fn, number, array, index1, iTotal, index2, ret,
          k, positions_top, positions_bottom, pmt_locations, log>>

frame == <<array, index1, iTotal, index2, ret>>
cells == <<k, positions_top, positions_bottom, pmt_locations>>

(***************************************************************************)
(* Constants of the notebook.                                              *)
(***************************************************************************)
\* 7.95 cm and 8.0 cm, in hundredths of a centimetre
PMT_distance_top == 795
PMT_distance_bottom == 800
n_rows == 13
n_pmts_top == 127
n_pmts_bottom == 121
\* range(7): the number of rings
n_rings == 7
\* 2*pi in half-degrees
FullTurn == 720
\* np.pi/2 + (3/72)*2*np.pi = 90 + 15 degrees, in half-degrees
rotation_angle_top == 210
\* np.pi/8 = 22.5 degrees, in half-degrees
rotation_angle_bottom == 45

\* How far outside its valid range a locator's argument is drawn.
Slack == 1

InputsTop == (1 - Slack)..(n_pmts_top + Slack)
InputsBottom == (n_pmts_top + 1 - Slack)..(n_pmts_top + n_pmts_bottom + Slack)

(***************************************************************************)
(* Python lists are 0-based: At(s, i) is s[i].                             *)
(***************************************************************************)
At(s, i) == s[i + 1]

\* array = [i*6 for i in range(7)]
ArrayFormulaOffByOne == [j \in 1..n_rings |-> j * 6]
ArrayFormula == [j \in 1..n_rings |-> (j - 1) * 6]

\* array[0] = 1
ArrayTopNoOverride == ArrayFormula
ArrayTop == [ArrayFormula EXCEPT ![1] = 1]

\* radius = [i*PMT_distance_top for i in range(7)]
radius == [j \in 1..n_rings |-> (j - 1) * PMT_distance_top]

\* array = [5, 8, 9, 10, 11, 12, 11, 12, 11, 10, 9, 8, 5]
ArrayBottom == <<5, 8, 9, 10, 11, 12, 11, 12, 11, 10, 9, 8, 5>>

\* PMTsRowOffset.append(-0.5*(array[i]-1)*PMT_distance_bottom), i in range(n_rows)
PMTsRowOffsetUncentred == [j \in 1..n_rows |-> 0 - ((ArrayBottom[j] * PMT_distance_bottom) \div 2)]
PMTsRowOffset == [j \in 1..n_rows |-> 0 - (((ArrayBottom[j] - 1) * PMT_distance_bottom) \div 2)]

\* the value of a name that is not bound yet
None == [u |-> 0, v |-> 0, turn |-> 0]

\* (radius*cos(a), radius*sin(a)) with a = index2*2*pi/count; cos and sin
\* have period 2*pi
TopPositionIntDiv(rad, i2, count) ==
  [u |-> rad, v |-> 0, turn |-> ((i2 \div count) * FullTurn) % FullTurn]

TopPosition(rad, i2, count) ==
  [u |-> rad, v |-> 0, turn |-> ((i2 * FullTurn) \div count) % FullTurn]

\* x = PMTsRowOffset[index1] + index2*PMT_distance_bottom
\* y = (0.5*(n_rows-1) - index1) * row_distance,
\*     row_distance = sqrt(3)/2 * PMT_distance_bottom
BottomPosition(i1, i2) ==
  [u |-> At(PMTsRowOffset, i1) + i2 * PMT_distance_bottom,
   v |-> (((n_rows - 1) - 2 * i1) * PMT_distance_bottom) \div 4,
   turn |-> 0]

\* rotate(pos, angle): turning a turned vector adds the angles
rotate(pos, angle) == [pos EXCEPT !.turn = (pos.turn + angle) % FullTurn]

(***************************************************************************)
(* get_pmt_positions_top(number)                                           *)
(***************************************************************************)
\* lines 38-43: the tables, index1 = 0, iTotal = array[0]
TopEnter ==
  /\ pc = "entry" /\ fn = "top"
  /\ array' = ArrayTop
  /\ index1' = 0
  /\ iTotal' = At(ArrayTop, 0)
  /\ pc' = "loop"
  /\ UNCHANGED <<fn, number, index2, ret, cells, log>>

\* line 44: while number > iTotal
TopGuardInclusive(n, tot) == n >= tot
TopGuard(n, tot) == n > tot

\* lines 44-46: one iteration of the loop; array[index1] past the end of the
\* list raises IndexError
TopLoop ==
  /\ pc = "loop" /\ fn = "top"
  /\ TopGuard(number, iTotal)
  /\ index1' = index1 + 1
  /\ IF index1 + 1 >= Len(array)
       THEN pc' = "IndexError" /\ UNCHANGED iTotal
       ELSE pc' = "loop" /\ iTotal' = iTotal + At(array, index1 + 1)
  /\ UNCHANGED <<fn, number, array, index2, ret, cells, log>>

\* line 48
TopIndex2Zero(n, a, i1, tot) == n - tot
TopIndex2(n, a, i1, tot) == n + At(a, i1) - tot

\* lines 48-52: the loop is left, index2, x and y are computed; a division by
\* array[index1] = 0 raises ZeroDivisionError

TopReturn ==
  /\ pc = "loop" /\ fn = "top"
  /\ ~TopGuard(number, iTotal)
  /\ index2' = TopIndex2(number, array, index1, iTotal)
  /\ IF At(array, index1) = 0
       THEN pc' = "ZeroDivisionError" /\ UNCHANGED <<ret, log>>
       ELSE /\ pc' = "returned"
            /\ ret' = TopPosition(At(radius, index1), index2', At(array, index1))
            /\ log' = Append(log, [fn |-> fn, number |-> number, index1 |-> index1,
                                   index2 |-> index2', pos |-> ret'])
  /\ UNCHANGED <<fn, number, array, index1, iTotal, cells>>

(***************************************************************************)
(* get_pmt_positions_bottom(number)                                        *)
(***************************************************************************)
\* lines 55-66
BottomEnter ==
  /\ pc = "entry" /\ fn = "bottom"
  /\ array' = ArrayBottom
  /\ index1' = 0
  /\ iTotal' = At(ArrayBottom, 0)
  /\ pc' = "loop"
  /\ UNCHANGED <<fn, number, index2, ret, cells, log>>

\* line 67: while number > n_pmts_top+iTotal
BottomGuardNoOffset(n, tot) == n > tot
BottomGuard(n, tot) == n > n_pmts_top + tot

\* lines 67-69
BottomLoop ==
  /\ pc = "loop" /\ fn = "bottom"
  /\ BottomGuard(number, iTotal)
  /\ index1' = index1 + 1
  /\ IF index1 + 1 >= Len(array)
       THEN pc' = "IndexError" /\ UNCHANGED iTotal
       ELSE pc' = "loop" /\ iTotal' = iTotal + At(array, index1 + 1)
  /\ UNCHANGED <<fn, number, array, index2, ret, cells, log>>

\* line 71
BottomIndex2OneBased(n, a, i1, tot) == n + At(a, i1) - tot - n_pmts_top
BottomIndex2(n, a, i1, tot) == n + At(a, i1) - tot - (n_pmts_top + 1)

\* lines 71-75
BottomReturn ==
  /\ pc = "loop" /\ fn = "bottom"
  /\ ~BottomGuard(number, iTotal)
  /\ index2' = BottomIndex2(number, array, index1, iTotal)
  /\ ret' = BottomPosition(index1, index2')
  /\ pc' = "returned"
  /\ log' = Append(log, [fn |-> fn, number |-> number, index1 |-> index1,
                         index2 |-> index2', pos |-> ret'])
  /\ UNCHANGED <<fn, number, array, index1, iTotal, cells>>

Locator == TopEnter \/ TopLoop \/ TopReturn \/ BottomEnter \/ BottomLoop \/ BottomReturn

(***************************************************************************)
(* One call of a locator, its argument drawn from the valid range widened  *)
(* by Slack on both sides.                                                 *)
(***************************************************************************)
InitFrame ==
  /\ array = <<>> /\ index1 = 0 /\ iTotal = 0 /\ index2 = 0 /\ ret = None
  /\ k = 0 /\ positions_top = <<>> /\ positions_bottom = <<>>
  /\ pmt_locations = <<>> /\ log = <<>>

InitCall ==
  /\ pc = "entry"
  /\ \/ fn = "top" /\ number \in InputsTop
     \/ fn = "bottom" /\ number \in InputsBottom
  /\ InitFrame

NextCall == Locator

CallSpec == InitCall /\ [][NextCall]_vars /\ WF_vars(NextCall)

(***************************************************************************)
(* get_pmt_positions_top as it would run with line 39 (array[0] = 1)       *)
(* removed: the table is the one line 38 builds.                           *)
(***************************************************************************)
TopEnterNoOverride ==
  /\ pc = "entry" /\ fn = "top"
  /\ array' = ArrayFormula
  /\ index1' = 0
  /\ iTotal' = At(ArrayFormula, 0)
  /\ pc' = "loop"
  /\ UNCHANGED <<fn, number, index2, ret, cells, log>>

InitNoOverride ==
  /\ pc = "entry" /\ fn = "top" /\ number \in InputsTop
  /\ InitFrame

NextNoOverride == TopEnterNoOverride \/ TopLoop \/ TopReturn

NoOverrideSpec == InitNoOverride /\ [][NextNoOverride]_vars /\ WF_vars(NextNoOverride)

(***************************************************************************)
(* The notebook's cells, run top to bottom.  The x and y columns of a      *)
(* position array (xs_top, ys_top, xs_bottom, ys_bottom) are kept together *)
(* as the array's rows.                                                    *)
(***************************************************************************)
\* line 90: [get_pmt_positions_top(i) for i in range(1, 128)], the next call
Cell3Call ==
  /\ pc = "cell3" /\ k < 128
  /\ fn' = "top" /\ number' = k
  /\ pc' = "entry"
  /\ UNCHANGED <<frame, cells, log>>

\* line 90: the value returned is the next row of positions_top
Cell3Collect ==
  /\ pc = "returned" /\ fn = "top"
  /\ positions_top' = Append(positions_top, ret)
  /\ k' = k + 1
  /\ pc' = "cell3"
  /\ UNCHANGED <<fn, number, frame, positions_bottom, pmt_locations, log>>

\* lines 92-96: every row rotated by rotation_angle_top
Cell3Rotate ==
  /\ pc = "cell3" /\ ~(k < 128)
  /\ positions_top' = [j \in 1..Len(positions_top) |->
                         rotate(positions_top[j], rotation_angle_top)]
  /\ k' = 128
  /\ pc' = "cell4"
  /\ UNCHANGED <<fn, number, frame, positions_bottom, pmt_locations, log>>

\* line 107: [get_pmt_positions_bottom(i) for i in range(128, 121+127+1)]
Cell4Call ==
  /\ pc = "cell4" /\ k < n_pmts_bottom + n_pmts_top + 1
  /\ fn' = "bottom" /\ number' = k
  /\ pc' = "entry"
  /\ UNCHANGED <<frame, cells, log>>

Cell4Collect ==
  /\ pc = "returned" /\ fn = "bottom"
  /\ positions_bottom' = Append(positions_bottom, ret)
  /\ k' = k + 1
  /\ pc' = "cell4"
  /\ UNCHANGED <<fn, number, frame, positions_top, pmt_locations, log>>

\* lines 108-112, then line 161: pmt_locations = []
Cell4Rotate ==
  /\ pc = "cell4" /\ ~(k < n_pmts_bottom + n_pmts_top + 1)
  /\ positions_bottom' = [j \in 1..Len(positions_bottom) |->
                            rotate(positions_bottom[j], rotation_angle_bottom)]
  /\ k' = 0
  /\ pmt_locations' = <<>>
  /\ pc' = "cell7_top"
  /\ UNCHANGED <<fn, number, frame, positions_top, log>>

\* line 163: the row of the top array that channel i takes
TopRowForward(i) == i
TopRow(i) == 127 - 1 - i

\* lines 162-163: for i in range(127)
Cell7Top ==
  /\ pc = "cell7_top"
  /\ IF k < 127
       THEN /\ pmt_locations' = Append(pmt_locations, At(positions_top, TopRow(k)))
            /\ k' = k + 1
            /\ pc' = "cell7_top"
       ELSE /\ k' = 0
            /\ pc' = "cell7_bottom"
            /\ UNCHANGED pmt_locations
  /\ UNCHANGED <<fn, number, frame, positions_top, positions_bottom, log>>

\* lines 165-166: for i in range(121)
Cell7Bottom ==
  /\ pc = "cell7_bottom"
  /\ IF k < 121
       THEN /\ pmt_locations' = Append(pmt_locations, At(positions_bottom, k))
            /\ k' = k + 1
            /\ pc' = "cell7_bottom"
       ELSE /\ pc' = "done"
            /\ UNCHANGED <<k, pmt_locations>>
  /\ UNCHANGED <<fn, number, frame, positions_top, positions_bottom, log>>

Init ==
  /\ pc = "cell3" /\ fn = "top" /\ number = 0
  /\ array = <<>> /\ index1 = 0 /\ iTotal = 0 /\ index2 = 0 /\ ret = None
  /\ k = 1 /\ positions_top = <<>> /\ positions_bottom = <<>>
  /\ pmt_locations = <<>> /\ log = <<>>

Next ==
  \/ Cell3Call \/ Cell3Collect \/ Cell3Rotate
  \/ Cell4Call \/ Cell4Collect \/ Cell4Rotate
  \/ Cell7Top \/ Cell7Bottom
  \/ Locator

Spec == Init /\ [][Next]_vars

\* the cells are run one after another and a running cell always takes its
\* next step
LiveSpec == Spec /\ WF_vars(Next)

(***************************************************************************)
(* Vocabulary of the properties.                                           *)
(***************************************************************************)
\* the ring and row capacities as the documentation states them
RingCount == <<1, 6, 12, 18, 24, 30, 36>>
RowCount == <<5, 8, 9, 10, 11, 12, 11, 12, 11, 10, 9, 8, 5>>

RECURSIVE Cumulative(_, _)
\* the number of PMTs in partitions 0..r of the table tab (0 for r = -1)
Cumulative(tab, r) == IF r < 0 THEN 0 ELSE At(tab, r) + Cumulative(tab, r - 1)

\* the smallest partition whose cumulative count reaches m
Smallest(tab, m) ==
  CHOOSE r \in 0..(Len(tab) - 1) :
    /\ Cumulative(tab, r) >= m
    /\ \A q \in 0..(r - 1) : Cumulative(tab, q) < m

TopLog == {j \in 1..Len(log) : log[j].fn = "top"}
BottomLog == {j \in 1..Len(log) : log[j].fn = "bottom"}
Errors == {"IndexError", "ZeroDivisionError"}

\* the call that returned most recently is a call of locator f
LastIs(f) == Len(log) > 0 /\ log[Len(log)].fn = f
LastCall == log[Len(log)]

\* the position get_pmt_positions_<f>(n) returned
Returned(f, n) == log[CHOOSE j \in 1..Len(log) : log[j].fn = f /\ log[j].number = n].pos
WasCalled(f, n) == \E j \in 1..Len(log) : log[j].fn = f /\ log[j].number = n

\* q is p turned counter-clockwise by a half-degrees
Turned(p, a, q) == q.u = p.u /\ q.v = p.v /\ q.turn = (p.turn + a) % FullTurn

\* |p|^2 = u^2 + 3 v^2, which no rotation changes
NormSq(p) == p.u * p.u + 3 * p.v * p.v

\* p and q are certainly the same point: both the origin, or the same vector
\* turned by the same angle
Coincide(p, q) ==
  \/ NormSq(p) = 0 /\ NormSq(q) = 0
  \/ p.turn = q.turn /\ p.u = q.u /\ p.v = q.v

\* p and q are certainly different points: different distances from the
\* origin, or different vectors turned by the same angle, or the same
\* non-zero vector turned by different angles below a full turn
Apart(p, q) ==
  \/ NormSq(p) # NormSq(q)
  \/ p.turn = q.turn /\ (p.u # q.u \/ p.v # q.v)
  \/ p.turn # q.turn /\ p.u = q.u /\ p.v = q.v /\ NormSq(p) # 0

(***************************************************************************)
(* C1: for every n in 1..127 the scan of get_pmt_positions_top keeps       *)
(* index1 within 0..6, raises no error, and the call returns.              *)
(***************************************************************************)
C1_TopScanTerminates ==
  /\ [](fn = "top" /\ number \in 1..127 => index1 \in 0..6 /\ pc \notin Errors)
  /\ (pc = "entry" /\ fn = "top" /\ number \in 1..127) ~> (pc = "returned")

C1_Witness == fn = "top" /\ number = 127 /\ pc = "returned" /\ index1 = 6

(***************************************************************************)
(* C2: a call of get_pmt_positions_top with n in 1..127 returns with       *)
(* index1 the smallest ring whose cumulative count reaches n and index2 =  *)
(* n minus the count of the rings before it, in 1..count[index1]; the ring *)
(* never decreases as n grows; n = 1 is on ring 0, n = 2 and n = 7 on ring *)
(* 1, n = 8 on ring 2.                                                     *)
(***************************************************************************)
C2_TopSlot ==
  LastIs("top") =>
    LET e == LastCall
        r == Smallest(RingCount, e.number)
    IN /\ e.index1 = r
       /\ e.index2 = e.number - Cumulative(RingCount, r - 1)
       /\ 1 <= e.index2 /\ e.index2 <= At(RingCount, r)
       /\ \A j \in TopLog : log[j].number <= e.number => log[j].index1 <= e.index1
       /\ (e.number = 1 => e.index1 = 0)
       /\ (e.number \in {2, 7} => e.index1 = 1)
       /\ (e.number = 8 => e.index1 = 2)

C2_Witness ==
  /\ pc = "done"
  /\ \A n \in 1..127 : WasCalled("top", n)
  /\ \E j \in TopLog : log[j].number = 7 /\ log[j].index1 = 1 /\ log[j].index2 = 6
  /\ \E j \in TopLog : log[j].number = 8 /\ log[j].index1 = 2 /\ log[j].index2 = 1

(***************************************************************************)
(* C3: every call of get_pmt_positions_bottom with n in 128..248 returns,  *)
(* its scan keeps index1 within 0..12 and raises no error, index1 is the   *)
(* smallest row whose cumulative count reaches n-127, and the row never    *)
(* decreases as n grows.                                                   *)
(***************************************************************************)
C3_BottomRow ==
  /\ [](fn = "bottom" /\ number \in 128..248 => index1 \in 0..12 /\ pc \notin Errors)
  /\ [](LastIs("bottom") =>
          /\ LastCall.index1 = Smallest(RowCount, LastCall.number - 127)
          /\ \A j \in BottomLog :
               log[j].number <= LastCall.number => log[j].index1 <= LastCall.index1)
  /\ (pc = "entry" /\ fn = "bottom") ~> (pc = "returned" /\ fn = "bottom")

C3_Witness ==
  /\ pc = "done"
  /\ \A n \in 128..248 : WasCalled("bottom", n)
  /\ \E j \in BottomLog : log[j].number = 248 /\ log[j].index1 = 12

(***************************************************************************)
(* C4 as stated: the within-row index of a bottom PMT is its 1-based       *)
(* position in its row, (n-127) minus the count of the rows before it, in  *)
(* 1..row_count[r].                                                        *)
(***************************************************************************)
C4_OneBasedWithin ==
  LastIs("bottom") =>
    LET e == LastCall
    IN /\ e.index2 = (e.number - 127) - Cumulative(RowCount, e.index1 - 1)
       /\ 1 <= e.index2 /\ e.index2 <= At(RowCount, e.index1)

(***************************************************************************)
(* C4 amended: the within-row index is the 0-based position of n in its    *)
(* row, (n-128) minus the count of the rows before it, in                  *)
(* 0..row_count[r]-1, and x is the row offset plus that index times        *)
(* PMT_distance_bottom.                                                    *)
(***************************************************************************)
C4_ZeroBasedWithin ==
  LastIs("bottom") =>
    LET e == LastCall
    IN /\ e.index2 = (e.number - 128) - Cumulative(RowCount, e.index1 - 1)
       /\ 0 <= e.index2 /\ e.index2 <= At(RowCount, e.index1) - 1
       /\ 2 * e.pos.u = (2 * e.index2 - (At(RowCount, e.index1) - 1)) * PMT_distance_bottom

C4_Witness ==
  /\ pc = "done"
  /\ \E j \in BottomLog : log[j].number = 128 /\ log[j].index1 = 0 /\ log[j].index2 = 0
  /\ \E j \in BottomLog : log[j].number = 132 /\ log[j].index1 = 0 /\ log[j].index2 = 4
  /\ \E j \in BottomLog : log[j].number = 133 /\ log[j].index1 = 1 /\ log[j].index2 = 0

(***************************************************************************)
(* C5: pmt_locations ends with 248 entries; entry i (0 <= i <= 126) is the *)
(* position get_pmt_positions_top(127-i) returned, turned by               *)
(* rotation_angle_top, and entry 127+i (0 <= i <= 120) is the position     *)
(* get_pmt_positions_bottom(128+i) returned, turned by                     *)
(* rotation_angle_bottom.                                                  *)
(***************************************************************************)
C5_Assembly ==
  pc = "done" =>
    /\ Len(pmt_locations) = 248
    /\ \A i \in 0..126 :
         Turned(Returned("top", 127 - i), rotation_angle_top, At(pmt_locations, i))
    /\ \A i \in 0..120 :
         Turned(Returned("bottom", 128 + i), rotation_angle_bottom, At(pmt_locations, 127 + i))

C5_Witness ==
  /\ pc = "done"
  /\ Len(pmt_locations) = 248
  /\ At(pmt_locations, 0) # At(pmt_locations, 126)
  /\ At(pmt_locations, 0).u = 6 * PMT_distance_top
  /\ At(pmt_locations, 126).u = 0

(***************************************************************************)
(* C6 as stated: no two different channels of pmt_locations are at the     *)
(* identical position.                                                     *)
(***************************************************************************)
C6_AllDistinct ==
  pc = "done" =>
    \A a, b \in 0..(Len(pmt_locations) - 1) :
      a # b => ~Coincide(At(pmt_locations, a), At(pmt_locations, b))

(***************************************************************************)
(* C6 amended: channels 126 and 187, the centre PMTs of the two arrays,    *)
(* are both at the origin, and every other pair of different channels is   *)
(* at different positions.                                                 *)
(***************************************************************************)
C6_DistinctButCentres ==
  pc = "done" =>
    /\ Len(pmt_locations) = 248
    /\ Coincide(At(pmt_locations, 126), At(pmt_locations, 187))
    /\ \A a, b \in 0..247 :
         a < b /\ <<a, b>> # <<126, 187>> =>
           Apart(At(pmt_locations, a), At(pmt_locations, b))

C6_Witness ==
  /\ pc = "done"
  /\ Len(pmt_locations) = 248
  /\ NormSq(At(pmt_locations, 126)) = 0
  /\ NormSq(At(pmt_locations, 187)) = 0

(***************************************************************************)
(* C7 as stated: get_pmt_positions_top(0), get_pmt_positions_top(128),     *)
(* get_pmt_positions_bottom(127) and get_pmt_positions_bottom(249) end in  *)
(* an error and return no position.                                        *)
(***************************************************************************)
OutOfRangeCall ==
  \/ fn = "top" /\ number \in {0, 128}
  \/ fn = "bottom" /\ number \in {127, 249}

C7_OutOfRangeFails == OutOfRangeCall => pc # "returned"

C7_Witness == fn = "top" /\ number = 0 /\ pc = "returned" /\ index1 = 0 /\ index2 = 0

(***************************************************************************)
(* C8: the calls with n in 1..127 fill each slot (ring r, within w), 0 <=  *)
(* r <= 6, 1 <= w <= count[r], exactly once, and the calls with n in       *)
(* 128..248 fill each of the 121 (row, within-row index) slots of the 13   *)
(* rows exactly once.                                                      *)
(***************************************************************************)
TopSlots == {s \in (0..6) \X (1..36) : s[2] <= At(RingCount, s[1])}
BottomSlots == {s \in (0..12) \X (0..11) : s[2] <= At(RowCount, s[1]) - 1}
SlotOf(e) == <<e.index1, e.index2>>

C8_SlotBijection ==
  /\ LastIs("top") =>
       /\ SlotOf(LastCall) \in TopSlots
       /\ \A j \in TopLog : j # Len(log) => SlotOf(log[j]) # SlotOf(LastCall)
  /\ LastIs("bottom") =>
       /\ SlotOf(LastCall) \in BottomSlots
       /\ \A j \in BottomLog : j # Len(log) => SlotOf(log[j]) # SlotOf(LastCall)
  /\ pc = "done" =>
       /\ {log[j].number : j \in TopLog} = 1..127
       /\ {SlotOf(log[j]) : j \in TopLog} = TopSlots
       /\ {log[j].number : j \in BottomLog} = 128..248
       /\ {SlotOf(log[j]) : j \in BottomLog} = BottomSlots

C8_Witness ==
  /\ pc = "done"
  /\ Cardinality(TopSlots) = 127 /\ Cardinality(TopLog) = 127
  /\ Cardinality(BottomSlots) = 121 /\ Cardinality(BottomLog) = 121

(***************************************************************************)
(* C9: before rotation the x values of every bottom row are symmetric      *)
(* under x -> -x; the first PMT of row r is at                             *)
(* -0.5*(row_count[r]-1)*PMT_distance_bottom and the last at               *)
(* +0.5*(row_count[r]-1)*PMT_distance_bottom.                              *)
(***************************************************************************)
RowLog(r) == {j \in BottomLog : log[j].index1 = r}

C9_RowsCentred ==
  pc = "done" =>
    \A r \in 0..12 :
      LET xs == {log[j].pos.u : j \in RowLog(r)}
          first == CHOOSE j \in RowLog(r) : \A i \in RowLog(r) : log[j].number <= log[i].number
          last == CHOOSE j \in RowLog(r) : \A i \in RowLog(r) : log[j].number >= log[i].number
      IN /\ RowLog(r) # {}
         /\ \A x \in xs : (0 - x) \in xs
         /\ 2 * log[first].pos.u = 0 - (At(RowCount, r) - 1) * PMT_distance_bottom
         /\ 2 * log[last].pos.u = (At(RowCount, r) - 1) * PMT_distance_bottom

C9_Witness ==
  /\ pc = "done"
  /\ \A r \in 0..12 : Cardinality(RowLog(r)) = At(RowCount, r)
  /\ \E j \in RowLog(0) : log[j].number = 128 /\ log[j].pos.u = 0 - 2 * PMT_distance_bottom

(***************************************************************************)
(* C10 as stated: with array[0] left at 0*6 = 0 the scan of                *)
(* get_pmt_positions_top never ends for n = 1.                             *)
(***************************************************************************)
C10_NeverEndsForOne == number = 1 => pc \in {"entry", "loop"}

(***************************************************************************)
(* C10 amended: with array[0] left at 0 the call for n = 1 still returns,  *)
(* after one iteration, on ring 1 with index2 = 1 instead of ring 0.       *)
(***************************************************************************)
C10_EndsOnRingOne ==
  /\ [](number = 1 => pc \notin Errors)
  /\ [](number = 1 /\ pc = "returned" => index1 = 1 /\ index2 = 1 /\ iTotal = 6)
  /\ (number = 1 /\ pc = "entry") ~> (number = 1 /\ pc = "returned")

C10_Witness == number = 1 /\ pc = "returned" /\ index1 = 1 /\ array[1] = 0

====
